---------------------------- MODULE Spec2Model ----------------------------
(***************************************************************************)
(* pre_process of scripts/west_commands/sbom/output_pre_process.py: the    *)
(* normalisation of an SBOM data set (files, packages, licenses,           *)
(* relationships) before it is handed to the output modules.               *)
(*                                                                         *)
(* Python strings are sequences of one-character strings, so that          *)
(* str.upper(), substring search, slicing, joining and the lexicographic   *)
(* order that sorted() uses are computed character by character.           *)
(***************************************************************************)
EXTENDS Integers, Sequences, FiniteSets, TLC

\* ---------------------------------------------------------------- bounds
\* Longest raw license list of the file whose license list is varied.
MaxTokens == 2
\* Most files of a data set in which the files are varied.
MaxFiles == 2
\* Most packages of a data set in which the packages are varied.
MaxPackages == 3
\* Longest input relationships list.
MaxRels == 2

\* ------------------------------------------------------- Python's None
None == <<"None">>

\* ------------------------------------------------- characters and order
\* The characters in use, in code point order (what Python compares by).
Ascii == <<" ", "!", "(", ")", "+", "-", ".", "/", "0", "1", "2", "3", "4", "5", "6", "7", "8", "9", ":", "@", "A", "B", "C", "D", "E", "F", "G", "H", "I", "J", "K", "L", "M", "N", "O", "P", "Q", "R", "S", "T", "U", "V", "W", "X", "Y", "Z", "_", "a", "b", "c", "d", "e", "f", "g", "h", "i", "j", "k", "l", "m", "n", "o", "p", "q", "r", "s", "t", "u", "v", "w", "x", "y", "z">>
LowerCase == <<"a", "b", "c", "d", "e", "f", "g", "h", "i", "j", "k", "l", "m", "n", "o", "p", "q", "r", "s", "t", "u", "v", "w", "x", "y", "z">>
UpperCase == <<"A", "B", "C", "D", "E", "F", "G", "H", "I", "J", "K", "L", "M", "N", "O", "P", "Q", "R", "S", "T", "U", "V", "W", "X", "Y", "Z">>
Digits == <<"0", "1", "2", "3", "4", "5", "6", "7", "8", "9">>

Range(s) == {s[i] : i \in 1..Len(s)}
Min(a, b) == IF a < b THEN a ELSE b

Ord(c) == CHOOSE i \in 1..Len(Ascii) : Ascii[i] = c

\* a < b for Python strings.
StrLess(a, b) ==
    \/ Len(a) < Len(b) /\ \A j \in 1..Len(a) : a[j] = b[j]
    \/ \E i \in 1..Min(Len(a), Len(b)) :
          /\ \A j \in 1..(i - 1) : a[j] = b[j]
          /\ Ord(a[i]) < Ord(b[i])

StrLeq(a, b) == a = b \/ StrLess(a, b)

\* sorted(S) for a set S of strings.
RECURSIVE SortedStrings(_)
SortedStrings(S) ==
    IF S = {} THEN <<>>
    ELSE LET m == CHOOSE x \in S : \A y \in S : StrLeq(x, y)
         IN  <<m>> \o SortedStrings(S \ {m})

\* str.upper(), one character.
UpperChar(c) ==
    IF c \in Range(LowerCase)
    THEN UpperCase[CHOOSE i \in 1..Len(LowerCase) : LowerCase[i] = c]
    ELSE c

\* str.upper().
Upper(s) == [i \in 1..Len(s) |-> UpperChar(s[i])]

\* f'{n}' for a natural number n.
RECURSIVE Decimal(_)
Decimal(n) ==
    IF n < 10 THEN <<Digits[n + 1]>>
    ELSE Decimal(n \div 10) \o <<Digits[(n % 10) + 1]>>

\* sep.join(items) for a sequence of strings.
RECURSIVE Join(_, _)
Join(sep, items) ==
    IF Len(items) = 0 THEN <<>>
    ELSE IF Len(items) = 1 THEN items[1]
    ELSE items[1] \o sep \o Join(sep, Tail(items))

\* s[from:] with a 0-based start, as Python slices.
SliceFrom(s, from) == IF from >= Len(s) THEN <<>> ELSE SubSeq(s, from + 1, Len(s))

\* s.startswith(prefix), s.endswith(suffix).
StartsWith(s, prefix) ==
    Len(prefix) <= Len(s) /\ SubSeq(s, 1, Len(prefix)) = prefix
EndsWith(s, suffix) ==
    Len(suffix) <= Len(s) /\ SubSeq(s, Len(s) - Len(suffix) + 1, Len(s)) = suffix

\* The 0-based offsets at which sub occurs in s; s.find(sub) is the least.
Occurrences(s, sub) ==
    {k \in 0..(Len(s) - Len(sub)) : SubSeq(s, k + 1, k + Len(sub)) = sub}
Contains(s, sub) == Occurrences(s, sub) # {}
Find(s, sub) ==
    IF Contains(s, sub)
    THEN CHOOSE k \in Occurrences(s, sub) : \A m \in Occurrences(s, sub) : k <= m
    ELSE -1

\* -------------------------------------------------- literals of the code
AND_SEP == <<" ", "A", "N", "D", " ">>
DOCUMENT == <<"S", "P", "D", "X", "R", "e", "f", "-", "D", "O", "C", "U", "M", "E", "N", "T">>
PKG_PREFIX == <<"S", "P", "D", "X", "R", "e", "f", "-", "P", "a", "c", "k", "a", "g", "e", "-">>
FILE_PREFIX == <<"S", "P", "D", "X", "R", "e", "f", "-", "F", "i", "l", "e", "-">>
DESCRIBES == <<"D", "E", "S", "C", "R", "I", "B", "E", "S">>
CONTAINS == <<"C", "O", "N", "T", "A", "I", "N", "S">>
NONE_VERSION == <<"N", "o", "n", "e", "V", "e", "r", "s", "i", "o", "n">>
NONE_NAME == <<"N", "o", "n", "e", "N", "a", "m", "e">>
GITHUB == <<"g", "i", "t", "h", "u", "b", ".", "c", "o", "m">>
DOT_GIT == <<".", "g", "i", "t">>
HTTP == <<"h", "t", "t", "p">>
LICENSEREF == <<"L", "i", "c", "e", "n", "s", "e", "R", "e", "f", "-">>
DASH == <<"-">>

\* ------------------------------------------------------------ input pools
\* Raw license tokens a scanner reports: bare identifiers in upper and mixed
\* case, a disjunction, a conjunction, a custom reference, an expression
\* that does not parse, and the empty token.
T_MIT == <<"M", "I", "T">>
T_Bsd == <<"B", "s", "d">>
T_OR == <<"M", "I", "T", " ", "O", "R", " ", "G", "P", "L">>
T_AND == <<"G", "P", "L", " ", "A", "N", "D", " ", "M", "I", "T">>
T_BAD == <<"M", "I", "T", " ", "O", "R">>
T_REF == <<"L", "i", "c", "e", "n", "s", "e", "R", "e", "f", "-", "x">>
T_GPL == <<"G", "P", "L">>
T_EMPTY == <<>>
TokenPool == {T_MIT, T_Bsd, T_OR, T_AND, T_BAD, T_REF, T_EMPTY}

\* Relationship type that is neither DESCRIBES nor CONTAINS.
DEPENDS_ON == <<"D", "E", "P", "E", "N", "D", "S", "_", "O", "N">>

U_GH == <<"h", "t", "t", "p", "s", ":", "/", "/", "g", "i", "t", "h", "u", "b", ".", "c", "o", "m", "/", "a", "b", ".", "g", "i", "t">>
U_SSH == <<"g", "i", "t", "@", "g", "i", "t", "h", "u", "b", ".", "c", "o", "m", ":", "a", "b">>
U_WEB == <<"h", "t", "t", "p", ":", "/", "/", "h", "/", "a", "b">>
N_AB == <<"a", "b">>
N_AB1 == <<"a", "b", "-", "1">>
V_1 == <<"1">>
V_2 == <<"2">>
F_A == <<"a", ".", "c">>
F_B == <<"b", ".", "c">>

\* ------------------------------------------- license_utils (collaborators)
\* The words of an expression: maximal runs without blanks or parentheses,
\* and each parenthesis on its own.
RECURSIVE Words(_, _, _)
Words(s, i, cur) ==
    LET flush == IF cur = <<>> THEN <<>> ELSE <<cur>>
    IN  IF i > Len(s) THEN flush
        ELSE IF s[i] = " " THEN flush \o Words(s, i + 1, <<>>)
        ELSE IF s[i] \in {"(", ")"} THEN flush \o <<(<<s[i]>>)>> \o Words(s, i + 1, <<>>)
        ELSE Words(s, i + 1, cur \o <<s[i]>>)

Tokenize(s) == Words(s, 1, <<>>)

W_AND == <<"A", "N", "D">>
W_OR == <<"O", "R">>
W_WITH == <<"W", "I", "T", "H">>
LPAREN == <<"(">>
RPAREN == <<")">>

IsOperator(w) == Upper(w) \in {W_AND, W_OR, W_WITH}
IdChars == Range(LowerCase) \cup Range(UpperCase) \cup Range(Digits) \cup {".", "-", "+"}
IsIdentifier(w) ==
    /\ w \notin {LPAREN, RPAREN}
    /\ ~IsOperator(w)
    /\ \A j \in 1..Len(w) : w[j] \in IdChars

\* One pass over the words: st.operand says an operand is expected next,
\* st.depth counts open parentheses, st.ok that no word was misplaced, and
\* st.or that an OR was met outside every parenthesis.
RECURSIVE Scan(_, _, _)
Scan(ws, i, st) ==
    IF i > Len(ws) THEN st
    ELSE LET w == ws[i] IN
         IF w = LPAREN
         THEN Scan(ws, i + 1, [st EXCEPT !.ok = st.ok /\ st.operand, !.depth = st.depth + 1])
         ELSE IF w = RPAREN
         THEN Scan(ws, i + 1, [st EXCEPT !.ok = st.ok /\ ~st.operand /\ st.depth > 0,
                                         !.depth = IF st.depth > 0 THEN st.depth - 1 ELSE 0])
         ELSE IF IsOperator(w)
         THEN Scan(ws, i + 1, [st EXCEPT !.ok = st.ok /\ ~st.operand, !.operand = TRUE,
                                         !.or = st.or \/ (Upper(w) = W_OR /\ st.depth = 0)])
         ELSE IF IsIdentifier(w)
         THEN Scan(ws, i + 1, [st EXCEPT !.ok = st.ok /\ st.operand, !.operand = FALSE])
         ELSE Scan(ws, i + 1, [st EXCEPT !.ok = FALSE])

\* get_spdx_license_expr_info(expr): valid (expr parses as an SPDX
\* expression), is_id_only (a single bare identifier), or_present (a
\* top-level OR), licenses (the identifiers it decomposes into) and
\* friendly_expr.
get_spdx_license_expr_info(expr) ==
    LET ws == Tokenize(expr)
        st == Scan(ws, 1, [operand |-> TRUE, depth |-> 0, ok |-> TRUE, or |-> FALSE])
    IN  [valid |-> st.ok /\ ~st.operand /\ st.depth = 0,
         is_id_only |-> Len(ws) = 1 /\ IsIdentifier(ws[1]),
         or_present |-> st.or,
         licenses |-> {ws[j] : j \in {k \in 1..Len(ws) : IsIdentifier(ws[k])}},
         friendly_expr |-> expr]

\* The registry: identifiers of the SPDX license list, and custom
\* identifiers that the registry knows a text for.
SpdxRegistry == {T_MIT, T_GPL}
CustomRegistry == {Upper(T_REF)}

is_spdx_license(id) == id \in SpdxRegistry

License(id, friendly, custom) ==
    [is_expr |-> FALSE, id |-> id, friendly_id |-> friendly, custom |-> custom]

\* get_license(id): the registry's License as <<lic>>, and <<>> for the None
\* it returns when the registry has none.
get_license(id) ==
    IF id \in SpdxRegistry THEN <<License(id, id, FALSE)>>
    ELSE IF id \in CustomRegistry THEN <<License(id, id, TRUE)>>
    ELSE <<>>

\* ------------------------------------------------------------------ state
VARIABLES
    files,                \* data.files
    packages,             \* data.packages, in insertion order of the dict
    licenses,             \* data.licenses: key -> License | LicenseExpr
    licenses_sorted,      \* data.licenses_sorted
    packages_sorted,      \* data.packages_sorted
    detectors,            \* data.detectors
    has_relationships,    \* hasattr(data, 'relationships')
    relationships,        \* data.relationships
    pc,                   \* the pass pre_process is about to run
    run,                  \* 1 in the first application, 2 in the second
    input,                \* the data set the current application was given
    fi,                   \* index of the file the expression builder is at
    ti,                   \* index of its token; 0 before the file is started
    simple_expr_items,    \* the three working sets of the expression builder
    or_expr_items,
    repeated_expr_items

vars == <<files, packages, licenses, licenses_sorted, packages_sorted, detectors,
          has_relationships, relationships, pc, run, input, fi, ti,
          simple_expr_items, or_expr_items, repeated_expr_items>>

\* The data set as one value.
Data ==
    [files |-> files, packages |-> packages, licenses |-> licenses,
     licenses_sorted |-> licenses_sorted, packages_sorted |-> packages_sorted,
     detectors |-> detectors, has_relationships |-> has_relationships,
     relationships |-> relationships]

NewFile(path, lics, dets, pkg) ==
    [file_path |-> path, licenses |-> lics, detectors |-> dets, package |-> pkg,
     license_expr |-> None, spdx_id |-> None]

NewPackage(id, name, version, url) ==
    [id |-> id, name |-> name, version |-> version, url |-> url,
     browser_url |-> None, external_refs |-> None, spdx_id |-> None]

NewRelationship(src, type, dst) ==
    [spdx_id |-> src, relationship_type |-> type, related_spdx_id |-> dst]

\* Truth value of an optional string: None and '' are false.
Truthy(s) == s # None /\ s # <<>>

\* ------------------------------------------------------------ File Sorter
\* Where list.sort puts f among the already sorted fs: behind every element
\* whose key is not greater (the sort is stable).
InsertByPath(fs, f) ==
    LET k == Cardinality({j \in 1..Len(fs) : ~StrLess(f.file_path, fs[j].file_path)})
    IN  SubSeq(fs, 1, k) \o <<f>> \o SubSeq(fs, k + 1, Len(fs))

RECURSIVE SortByPathFrom(_, _, _)
SortByPathFrom(fs, i, acc) ==
    IF i > Len(fs) THEN acc ELSE SortByPathFrom(fs, i + 1, InsertByPath(acc, fs[i]))

\* data.files.sort(key=lambda f: f.file_path)
SortByPath(fs) == SortByPathFrom(fs, 1, <<>>)

SortFiles ==
    /\ pc = "sort_files"
    /\ files' = SortByPath(files)
    /\ fi' = 1
    /\ ti' = 0
    /\ pc' = IF Len(files) = 0 THEN "detectors" ELSE "license_expr"
    /\ UNCHANGED <<packages, licenses, licenses_sorted, packages_sorted, detectors,
                   has_relationships, relationships, run, input,
                   simple_expr_items, or_expr_items, repeated_expr_items>>

\* ------------------------------------------------ License-Expression Builder
\* licenses = file.licenses if len(file.licenses) > 0 else ['']
LicensesOf(file) == IF Len(file.licenses) > 0 THEN file.licenses ELSE << <<>> >>

\* The for loop over data.files enters a file: the working sets are new.
StartFile ==
    /\ pc = "license_expr"
    /\ ti = 0
    /\ simple_expr_items' = {}
    /\ or_expr_items' = {}
    /\ repeated_expr_items' = {}
    /\ ti' = 1
    /\ UNCHANGED <<files, packages, licenses, licenses_sorted, packages_sorted,
                   detectors, has_relationships, relationships, pc, run, input, fi>>

\* Variant: the three sets as one exclusive choice (if / elif / else).
ClassifyExclusive(license, info, sets) ==
    IF info.valid /\ ~info.is_id_only /\ Cardinality(info.licenses) > 1
    THEN [sets EXCEPT !.repeated = sets.repeated \cup info.licenses]
    ELSE IF ~info.valid \/ info.or_present
    THEN [sets EXCEPT !.or = sets.or \cup {license}]
    ELSE [sets EXCEPT !.simple = sets.simple \cup {license}]

\* The body of the loop over the tokens: what one token adds to the sets.
\* The test for the repeated set is an if of its own, ahead of the if / else
\* that chooses between or-items and simple-items.
Classify(license, info, sets) ==
    LET rep == IF info.valid /\ ~info.is_id_only /\ Cardinality(info.licenses) > 1
               THEN sets.repeated \cup info.licenses
               ELSE sets.repeated
    IN  IF ~info.valid \/ info.or_present
        THEN [simple |-> sets.simple, or |-> sets.or \cup {license}, repeated |-> rep]
        ELSE [simple |-> sets.simple \cup {license}, or |-> sets.or, repeated |-> rep]

\* Variant: the token as the scanner gave it.
RawToken(raw) == raw
\* license = license.upper()
NormalizedToken(raw) == Upper(raw)

\* The token the builder is at, as the loop normalises it.
CurrentToken == NormalizedToken(LicensesOf(files[fi])[ti])

ClassifyToken ==
    /\ pc = "license_expr"
    /\ ti >= 1
    /\ ti <= Len(LicensesOf(files[fi]))
    /\ LET license == CurrentToken
           info == get_spdx_license_expr_info(license)
           sets == Classify(license, info,
                            [simple |-> simple_expr_items, or |-> or_expr_items,
                             repeated |-> repeated_expr_items])
       IN  /\ simple_expr_items' = sets.simple
           /\ or_expr_items' = sets.or
           /\ repeated_expr_items' = sets.repeated
    /\ ti' = ti + 1
    /\ UNCHANGED <<files, packages, licenses, licenses_sorted, packages_sorted,
                   detectors, has_relationships, relationships, pc, run, input, fi>>

\* Variant: parentheses only among several or-items.
ParensOnlyForSeveral(or_items, simple_items) == Cardinality(or_items) > 1
\* len(or_expr_items) > 1 or len(simple_expr_items) > 0
NeedsParens(or_items, simple_items) ==
    Cardinality(or_items) > 1 \/ Cardinality(simple_items) > 0

\* f'({x})'
Paren(x) == LPAREN \o x \o RPAREN

\* The end of the loop body for a file: the expression is put together.
JoinExpr ==
    /\ pc = "license_expr"
    /\ ti > Len(LicensesOf(files[fi]))
    /\ LET simple == simple_expr_items \ repeated_expr_items
           ors == IF NeedsParens(or_expr_items, simple)
                  THEN {Paren(x) : x \in or_expr_items}
                  ELSE or_expr_items
       IN  /\ simple_expr_items' = simple
           /\ or_expr_items' = ors
           /\ files' = [files EXCEPT ![fi].license_expr =
                           Join(AND_SEP, SortedStrings(simple \cup ors))]
    /\ fi' = fi + 1
    /\ ti' = 0
    /\ pc' = IF fi = Len(files) THEN "detectors" ELSE pc
    /\ UNCHANGED <<packages, licenses, licenses_sorted, packages_sorted, detectors,
                   has_relationships, relationships, run, input, repeated_expr_items>>

\* ------------------------------------------------------ Detector Aggregator
CollectDetectors ==
    /\ pc = "detectors"
    /\ detectors' = detectors \cup UNION {files[i].detectors : i \in 1..Len(files)}
    /\ pc' = "catalog"
    /\ UNCHANGED <<files, packages, licenses, licenses_sorted, packages_sorted,
                   has_relationships, relationships, run, input, fi, ti,
                   simple_expr_items, or_expr_items, repeated_expr_items>>

\* --------------------------------------------------- License Catalog Builder
\* if not info.valid or not info.is_id_only: the expression gets an entry.
NeedsExprEntry(info) == ~info.valid \/ ~info.is_id_only

\* The LicenseExpr of an expression.
ExprEntry(expr, info) ==
    [is_expr |-> TRUE, valid |-> info.valid, id |-> expr,
     friendly_id |-> info.friendly_expr,
     licenses |-> SortedStrings(info.licenses),
     custom |-> ~info.valid \/ \E id \in info.licenses : ~is_spdx_license(id)]

\* The entry of identifier id: the registry's for an SPDX identifier, else
\* the one data.licenses has, else the registry's, else a new License.
IdEntry(id, old) ==
    IF is_spdx_license(id) THEN get_license(id)[1]
    ELSE IF id \in DOMAIN old THEN old[id]
    ELSE LET lic == get_license(id)
         IN  IF lic = <<>> THEN License(id, id, TRUE) ELSE lic[1]

\* Variant: the identifiers get no entry.
NoIdEntries(ids, used, old) == used
\* for id in info.licenses: the identifiers not yet in used get their entry.
WithIdEntries(ids, used, old) ==
    used @@ [id \in (ids \ DOMAIN used) |-> IdEntry(id, old)]

\* The loop over data.files that fills used_licenses, from file i on.
RECURSIVE UsedLicenses(_, _, _, _)
UsedLicenses(fs, i, used, old) ==
    IF i > Len(fs) THEN used
    ELSE LET expr == fs[i].license_expr
             info == get_spdx_license_expr_info(expr)
             with_expr == IF NeedsExprEntry(info)
                          THEN (expr :> ExprEntry(expr, info)) @@ used
                          ELSE used
         IN  IF expr \in DOMAIN used
             THEN UsedLicenses(fs, i + 1, used, old)
             ELSE UsedLicenses(fs, i + 1, WithIdEntries(info.licenses, with_expr, old), old)

CollectLicenses ==
    /\ pc = "catalog"
    /\ licenses' = UsedLicenses(files, 1, <<>>, licenses)
    /\ pc' = "sort_licenses"
    /\ UNCHANGED <<files, packages, licenses_sorted, packages_sorted, detectors,
                   has_relationships, relationships, run, input, fi, ti,
                   simple_expr_items, or_expr_items, repeated_expr_items>>

\* lic_reorder(id): the sort key of a key of data.licenses.
lic_reorder(lics, id) ==
    LET lic == lics[id]
    IN  IF id = <<>> THEN <<"A">>
        ELSE IF lic.is_expr
        THEN (IF lic.custom THEN <<"B">> \o id ELSE <<"E">> \o id)
        ELSE IF StartsWith(id, LICENSEREF) THEN <<"D">> \o id
        ELSE IF lic.custom THEN <<"C">> \o id
        ELSE <<"F">> \o id

\* sorted(keys, key=lic_reorder); no two keys have the same sort key.
RECURSIVE SortedByReorder(_, _)
SortedByReorder(lics, keys) ==
    IF keys = {} THEN <<>>
    ELSE LET m == CHOOSE x \in keys :
                    \A y \in keys : StrLeq(lic_reorder(lics, x), lic_reorder(lics, y))
         IN  <<m>> \o SortedByReorder(lics, keys \ {m})

SortLicenses ==
    /\ pc = "sort_licenses"
    /\ licenses_sorted' = SortedByReorder(licenses, DOMAIN licenses)
    /\ pc' = "assign_ids"
    /\ UNCHANGED <<files, packages, licenses, packages_sorted, detectors,
                   has_relationships, relationships, run, input, fi, ti,
                   simple_expr_items, or_expr_items, repeated_expr_items>>

\* ------------------------------------------- Identifier & Package Normalizer
\* Index in pkgs of the package stored under key id; 0 when there is none.
PkgIndex(pkgs, id) ==
    IF \E i \in 1..Len(pkgs) : pkgs[i].id = id
    THEN CHOOSE i \in 1..Len(pkgs) : pkgs[i].id = id
    ELSE 0

\* sorted(data.packages.keys())
SortedPackageKeys(pkgs) == SortedStrings({pkgs[i].id : i \in 1..Len(pkgs)})

\* Variant: the counter is never incremented.
CounterStuck(k) == 1
\* Value of the counter when the loop reaches the element at position k.
CounterAt(k) == k

PackageSpdxId(counter) == PKG_PREFIX \o Decimal(counter)
FileSpdxId(counter) == FILE_PREFIX \o Decimal(counter)

\* Position of key id in the sorted keys.
PositionIn(sorted, id) == CHOOSE k \in 1..Len(sorted) : sorted[k] = id

AssignIds ==
    /\ pc = "assign_ids"
    /\ LET sorted == SortedPackageKeys(packages)
       IN  /\ packages_sorted' = sorted
           /\ packages' =
                [i \in 1..Len(packages) |->
                    [packages[i] EXCEPT
                        !.spdx_id = PackageSpdxId(CounterAt(PositionIn(sorted, packages[i].id))),
                        !.external_refs = IF @ = None THEN <<>> ELSE @]]
    /\ files' = [i \in 1..Len(files) |->
                    [files[i] EXCEPT !.spdx_id = FileSpdxId(CounterAt(i))]]
    /\ pc' = "packages"
    /\ UNCHANGED <<licenses, licenses_sorted, detectors, has_relationships,
                   relationships, run, input, fi, ti,
                   simple_expr_items, or_expr_items, repeated_expr_items>>

\* The name a package without one gets: the path behind github.com/ without
\* a trailing .git, else package.id or package.url or 'NoneName'.
DerivedName(p) ==
    LET from_url == SliceFrom(p.url, Find(p.url, GITHUB) + Len(GITHUB) + 1)
        stripped == IF EndsWith(from_url, DOT_GIT)
                    THEN SubSeq(from_url, 1, Len(from_url) - Len(DOT_GIT))
                    ELSE from_url
    IN  IF p.name # None THEN p.name
        ELSE IF Contains(p.url, GITHUB) THEN stripped
        ELSE IF Truthy(p.id) THEN p.id
        ELSE IF Truthy(p.url) THEN p.url
        ELSE NONE_NAME

\* name += '-' + version
Suffixed(name, version) == name \o DASH \o version

\* Variant: the existing package gets the version of the new one.
RenameWithNewVersion(pkgs, i, e) ==
    [pkgs EXCEPT ![i].name = Suffixed(pkgs[i].name, pkgs[i].version),
                 ![e].name = Suffixed(pkgs[e].name, pkgs[i].version)]
\* The names after a collision of package i with the existing package e:
\* both get their own version appended.
RenameBoth(pkgs, i, e) ==
    [pkgs EXCEPT ![i].name = Suffixed(pkgs[i].name, pkgs[i].version),
                 ![e].name = Suffixed(pkgs[e].name, pkgs[e].version)]

\* The loop over data.packages.values(), from package i on; map is
\* package_name_map, from a name to the index of its package.
RECURSIVE NormalizeFrom(_, _, _)
NormalizeFrom(pkgs, i, map) ==
    IF i > Len(pkgs) THEN pkgs
    ELSE LET versioned == [pkgs EXCEPT ![i].version = IF @ = None THEN NONE_VERSION ELSE @]
             named == [versioned EXCEPT ![i].name = DerivedName(versioned[i])]
             name == named[i].name
             collides == name \in DOMAIN map
             e == map[name]
             renamed == IF collides THEN RenameBoth(named, i, e) ELSE named
             map1 == IF collides
                     THEN (renamed[e].name :> e) @@ [n \in (DOMAIN map \ {name}) |-> map[n]]
                     ELSE map
             map2 == (renamed[i].name :> i) @@ map1
             browsed == [renamed EXCEPT ![i].browser_url =
                            IF @ = None /\ StartsWith(renamed[i].url, HTTP)
                            THEN renamed[i].url ELSE @]
         IN  IF versioned[i].url = None
             THEN NormalizeFrom(versioned, i + 1, map)
             ELSE NormalizeFrom(browsed, i + 1, map2)

NormalizePackages ==
    /\ pc = "packages"
    /\ packages' = NormalizeFrom(packages, 1, <<>>)
    /\ pc' = "relationships"
    /\ UNCHANGED <<files, licenses, licenses_sorted, packages_sorted, detectors,
                   has_relationships, relationships, run, input, fi, ti,
                   simple_expr_items, or_expr_items, repeated_expr_items>>

\* --------------------------------------------------------- Relationship Deriver
\* Variant: only CONTAINS edges are dropped.
KeepDocumentDescribes(rel) == rel.relationship_type # CONTAINS
\* _should_keep_relationship(rel)
should_keep_relationship(rel) ==
    IF rel.spdx_id = DOCUMENT /\ rel.relationship_type = DESCRIBES THEN FALSE
    ELSE IF rel.relationship_type = CONTAINS THEN FALSE
    ELSE TRUE

\* Variant: the input relationships are kept as they are.
BaseUnfiltered(has, rels) == rels
\* base_relationships
BaseRelationships(has, rels) ==
    IF has THEN SelectSeq(rels, should_keep_relationship) ELSE <<>>

\* The keys of package_to_files, in the order the dict got them: the order
\* in which the files first name each package.
RECURSIVE GroupKeysFrom(_, _, _)
GroupKeysFrom(fs, i, acc) ==
    IF i > Len(fs) THEN acc
    ELSE IF fs[i].package \in Range(acc) THEN GroupKeysFrom(fs, i + 1, acc)
    ELSE GroupKeysFrom(fs, i + 1, Append(acc, fs[i].package))

GroupKeys(fs) == GroupKeysFrom(fs, 1, <<>>)

\* package_to_files[key]: the spdx_id of the files of package key, in order.
RECURSIVE GroupFilesFrom(_, _, _)
GroupFilesFrom(fs, key, i) ==
    IF i > Len(fs) THEN <<>>
    ELSE IF fs[i].package = key THEN <<fs[i].spdx_id>> \o GroupFilesFrom(fs, key, i + 1)
    ELSE GroupFilesFrom(fs, key, i + 1)

GroupFiles(fs, key) == GroupFilesFrom(fs, key, 1)

\* Variant: a package is described whether or not it has files.
IsDescribedAlways(package, package_id, with_files) == Truthy(package.spdx_id)
\* if package.spdx_id and package_id in packages_with_files
IsDescribed(package, package_id, with_files) ==
    Truthy(package.spdx_id) /\ package_id \in with_files

\* The loop over data.packages_sorted that appends the DESCRIBES edges.
RECURSIVE DescribesFrom(_, _, _, _)
DescribesFrom(pkgs, sorted, with_files, k) ==
    IF k > Len(sorted) THEN <<>>
    ELSE LET package == pkgs[PkgIndex(pkgs, sorted[k])]
             edge == NewRelationship(DOCUMENT, DESCRIBES, package.spdx_id)
         IN  IF IsDescribed(package, sorted[k], with_files)
             THEN <<edge>> \o DescribesFrom(pkgs, sorted, with_files, k + 1)
             ELSE DescribesFrom(pkgs, sorted, with_files, k + 1)

\* Variant: a missing package is not skipped.
SkipOnlyUnnumbered(pkgs, idx) == idx # 0 /\ ~Truthy(pkgs[idx].spdx_id)
\* if package is None or not package.spdx_id: continue, for the package at
\* index idx (0: data.packages.get found none).
SkipGroup(pkgs, idx) == idx = 0 \/ ~Truthy(pkgs[idx].spdx_id)

\* for file_id in file_ids: one CONTAINS edge for each.
ContainsOf(package_spdx_id, file_ids) ==
    [j \in 1..Len(file_ids) |-> NewRelationship(package_spdx_id, CONTAINS, file_ids[j])]

\* The loop over package_to_files.items() from group g on. The result says
\* whether an attribute of None was read (the loop then ends in an
\* AttributeError) and gives the edges appended until then.
RECURSIVE ContainsFrom(_, _, _, _)
ContainsFrom(pkgs, fs, keys, g) ==
    IF g > Len(keys) THEN [error |-> FALSE, rels |-> <<>>]
    ELSE LET idx == PkgIndex(pkgs, keys[g])
             rest == ContainsFrom(pkgs, fs, keys, g + 1)
         IN  IF SkipGroup(pkgs, idx) THEN rest
             ELSE IF idx = 0 THEN [error |-> TRUE, rels |-> <<>>]
             ELSE [error |-> rest.error,
                   rels |-> ContainsOf(pkgs[idx].spdx_id, GroupFiles(fs, keys[g])) \o rest.rels]

DeriveRelationships ==
    /\ pc = "relationships"
    /\ LET base == BaseRelationships(has_relationships, relationships)
           keys == GroupKeys(files)
           describes == DescribesFrom(packages, packages_sorted, Range(keys), 1)
           contains == ContainsFrom(packages, files, keys, 1)
       IN  /\ relationships' = base \o describes \o contains.rels
           /\ pc' = IF contains.error THEN "error" ELSE "done"
    /\ has_relationships' = TRUE
    /\ UNCHANGED <<files, packages, licenses, licenses_sorted, packages_sorted,
                   detectors, run, input, fi, ti,
                   simple_expr_items, or_expr_items, repeated_expr_items>>

\* The caller applies pre_process to the data set a second time.
Reapply ==
    /\ pc = "done"
    /\ run = 1
    /\ run' = 2
    /\ input' = Data
    /\ pc' = "sort_files"
    /\ UNCHANGED <<files, packages, licenses, licenses_sorted, packages_sorted,
                   detectors, has_relationships, relationships, fi, ti,
                   simple_expr_items, or_expr_items, repeated_expr_items>>

\* ------------------------------------------------------------ initial states
\* Sequences over S of length at most n.
SeqsUpTo(S, n) == UNION {[1..k -> S] : k \in 0..n}

\* Key of the package inserted i-th of n: the dict is filled in descending
\* order of the keys, so that sorting the keys changes the order.
PkgKey(i, n) == <<"p">> \o Decimal(n + 1 - i)
\* A package id that is no key of data.packages.
DanglingKey == <<"p">> \o Decimal(0)
\* Path of the file listed i-th of n: descending, so that the sort acts.
FilePath(i, n) == Decimal(n + 1 - i) \o <<".", "c">>

PackageTemplates ==
    {[name |-> N_AB, version |-> V_1, url |-> U_WEB],
     [name |-> N_AB, version |-> V_2, url |-> U_WEB],
     [name |-> None, version |-> None, url |-> U_GH],
     [name |-> N_AB1, version |-> V_2, url |-> U_SSH],
     [name |-> N_AB, version |-> V_1, url |-> None],
     [name |-> None, version |-> V_1, url |-> U_WEB]}

FromTemplate(t, key) == NewPackage(key, t.name, t.version, t.url)

DefaultPackages == <<NewPackage(PkgKey(1, 1), N_AB, V_1, U_WEB)>>

RelPool ==
    {NewRelationship(DOCUMENT, DESCRIBES, PackageSpdxId(1)),
     NewRelationship(PackageSpdxId(1), CONTAINS, FileSpdxId(7)),
     NewRelationship(PackageSpdxId(1), DESCRIBES, FileSpdxId(1)),
     NewRelationship(PackageSpdxId(1), DEPENDS_ON, PackageSpdxId(2))}

CatalogLists == {<<>>, <<T_Bsd>>, <<T_OR>>, <<T_REF, T_MIT>>, <<T_BAD>>}

InputLicenses ==
    {<<>>, (Upper(T_Bsd) :> License(Upper(T_Bsd), T_Bsd, TRUE))}

\* One file whose license list is varied.
InitExpr ==
    /\ \E lics \in SeqsUpTo(TokenPool, MaxTokens) :
          files = <<NewFile(F_A, lics, {"scancode"}, PkgKey(1, 1))>>
    /\ packages = DefaultPackages
    /\ licenses = <<>>
    /\ has_relationships = FALSE
    /\ relationships = <<>>

\* Several files with licenses, over a catalog of an earlier scan.
InitCatalog ==
    /\ \E fs \in SeqsUpTo({NewFile(p, l, IF p = F_A THEN {"scancode"} ELSE {"spdx-tag"},
                                   PkgKey(1, 1)) : p \in {F_A, F_B}, l \in CatalogLists},
                          MaxFiles) :
          files = fs
    /\ packages = DefaultPackages
    /\ licenses \in InputLicenses
    /\ has_relationships = TRUE
    /\ relationships = <<>>

\* Packages with varied names, versions and urls.
InitPackages ==
    /\ \E n \in 0..MaxPackages : \E choice \in [1..n -> PackageTemplates] :
          /\ packages = [i \in 1..n |-> FromTemplate(choice[i], PkgKey(i, n))]
          /\ files = IF n = 0 THEN <<>>
                     ELSE <<NewFile(F_B, <<T_MIT>>, {"scancode"}, PkgKey(1, n)),
                            NewFile(F_A, <<>>, {}, PkgKey(1, n))>>
    /\ licenses = <<>>
    /\ has_relationships = FALSE
    /\ relationships = <<>>

\* Files of varied owners, one of them no package, and input relationships.
InitRelationships ==
    /\ packages = <<NewPackage(PkgKey(1, 2), N_AB, V_1, U_WEB),
                    NewPackage(PkgKey(2, 2), None, None, U_GH)>>
    /\ \E n \in 0..MaxFiles :
          \E owner \in [1..n -> {PkgKey(1, 2), PkgKey(2, 2), DanglingKey}] :
             files = [i \in 1..n |-> NewFile(FilePath(i, n), <<T_MIT>>, {"scancode"}, owner[i])]
    /\ licenses = <<>>
    /\ \/ has_relationships = FALSE /\ relationships = <<>>
       \/ has_relationships = TRUE /\ relationships \in SeqsUpTo(RelPool, MaxRels)

Init ==
    /\ \/ InitExpr
       \/ InitCatalog
       \/ InitPackages
       \/ InitRelationships
    /\ licenses_sorted = <<>>
    /\ packages_sorted = <<>>
    /\ detectors = {}
    /\ pc = "sort_files"
    /\ run = 1
    /\ fi = 1
    /\ ti = 0
    /\ simple_expr_items = {}
    /\ or_expr_items = {}
    /\ repeated_expr_items = {}
    /\ input = Data

Next ==
    \/ SortFiles
    \/ StartFile
    \/ ClassifyToken
    \/ JoinExpr
    \/ CollectDetectors
    \/ CollectLicenses
    \/ SortLicenses
    \/ AssignIds
    \/ NormalizePackages
    \/ DeriveRelationships
    \/ Reapply

Spec == Init /\ [][Next]_vars

\* ===================================================================== claims
Done == pc = "done"

\* The file at position i has its license_expr.
HasExpr(i) == files[i].license_expr # None

\* The normalised tokens of file f, and how the resolver reports each.
TokensOf(f) == {Upper(LicensesOf(f)[k]) : k \in 1..Len(LicensesOf(f))}
IsCompound(t) ==
    LET info == get_spdx_license_expr_info(t)
    IN  info.valid /\ ~info.is_id_only /\ Cardinality(info.licenses) > 1
IsOrItem(t) ==
    LET info == get_spdx_license_expr_info(t)
    IN  ~info.valid \/ info.or_present
IsBareId(t) ==
    LET info == get_spdx_license_expr_info(t)
    IN  info.valid /\ info.is_id_only /\ ~info.or_present

\* The tokens the builder has classified of the file it is at.
ClassifiedTokens ==
    IF pc = "license_expr" /\ ti >= 1
    THEN {Upper(LicensesOf(files[fi])[k]) : k \in 1..(ti - 1)}
    ELSE {}

\* C7 as stated: a file whose only raw token X is a valid bare identifier
\* gets license_expr = X, character for character.
C7_VerbatimIdentifier ==
    \A i \in 1..Len(files) :
        (HasExpr(i) /\ Len(files[i].licenses) = 1 /\ IsBareId(files[i].licenses[1]))
            => files[i].license_expr = files[i].licenses[1]

\* C7 amended: a file whose only raw token X is a valid bare identifier gets
\* X in upper case: the same length, every lower case letter replaced by its
\* capital and every other character kept.
C7_UpperCasedIdentifier ==
    \A i \in 1..Len(files) :
        (HasExpr(i) /\ Len(files[i].licenses) = 1 /\ IsBareId(files[i].licenses[1]))
            => LET x == files[i].licenses[1]
                   e == files[i].license_expr
               IN  /\ Len(e) = Len(x)
                   /\ \A k \in 1..Len(x) :
                         IF x[k] \in Range(LowerCase)
                         THEN \E n \in 1..Len(LowerCase) :
                                 LowerCase[n] = x[k] /\ e[k] = UpperCase[n]
                         ELSE e[k] = x[k]

\* A file whose only token is the mixed case identifier Bsd has its expression.
C7_Witness ==
    \E i \in 1..Len(files) :
        HasExpr(i) /\ files[i].licenses = <<T_Bsd>> /\ IsBareId(T_Bsd)

\* C9 as stated: a classified token that contributes its identifiers to the
\* repeated set is in neither or-items nor simple-items, and every token is
\* in at least one of the three sets.
C9_ExactlyOneOfThree ==
    \A t \in ClassifiedTokens :
        IF IsCompound(t)
        THEN t \notin or_expr_items /\ t \notin simple_expr_items
        ELSE t \in or_expr_items \/ t \in simple_expr_items

\* C9 amended: every classified token is in exactly one of or-items (when it
\* is invalid or has a top-level OR) and simple-items (otherwise); a valid
\* compound token has, on top of that, its identifiers in the repeated set,
\* and nothing else is in the three sets.
C9_OneOfTwoPlusRepeated ==
    (pc = "license_expr" /\ ti >= 1) =>
        /\ \A t \in ClassifiedTokens :
              /\ (t \in or_expr_items) # (t \in simple_expr_items)
              /\ (t \in or_expr_items) = IsOrItem(t)
              /\ IsCompound(t) => get_spdx_license_expr_info(t).licenses \subseteq repeated_expr_items
        /\ or_expr_items \cup simple_expr_items = ClassifiedTokens
        /\ repeated_expr_items =
              UNION {get_spdx_license_expr_info(t).licenses :
                        t \in {u \in ClassifiedTokens : IsCompound(u)}}

\* The only token of a file was classified and went to or-items and to the
\* repeated set at once.
C9_Witness ==
    /\ pc = "license_expr"
    /\ ti = 2
    /\ Len(files[fi].licenses) = 1
    /\ or_expr_items # {}
    /\ repeated_expr_items # {}

\* The items of file f in closed form: the simple tokens outside the
\* repeated identifiers and the or tokens.
RepeatedOf(f) ==
    UNION {get_spdx_license_expr_info(t).licenses : t \in {u \in TokensOf(f) : IsCompound(u)}}
OrItemsOf(f) == {t \in TokensOf(f) : IsOrItem(t)}
SimpleItemsOf(f) == {t \in TokensOf(f) : ~IsOrItem(t)} \ RepeatedOf(f)

\* C10: when pre_process has ended, license_expr is the ' AND '-join of the
\* sorted items, the or-items in parentheses exactly when there are several
\* of them or a simple item is left; a lone or-item stays bare, an invalid
\* token always occurs in the expression, and an empty license list gives
\* the empty string.
C10_ExpressionComposition ==
    Done =>
        \A i \in 1..Len(files) :
            LET f == files[i]
                e == f.license_expr
                ors == OrItemsOf(f)
                simple == SimpleItemsOf(f)
                wrapped == Cardinality(ors) > 1 \/ simple # {}
                items == simple \cup (IF wrapped THEN {Paren(t) : t \in ors} ELSE ors)
            IN  /\ e = Join(AND_SEP, SortedStrings(items))
                /\ (Cardinality(ors) = 1 /\ simple = {}) => \A t \in ors : e = t
                /\ wrapped => \A t \in ors : Contains(e, Paren(t))
                /\ \A t \in TokensOf(f) :
                      ~get_spdx_license_expr_info(t).valid => Contains(e, t)
                /\ f.licenses = <<>> => e = <<>>

\* A file with a disjunction and a simple item: the disjunction is wrapped.
C10_Witness ==
    \E i \in 1..Len(files) :
        /\ Done
        /\ Cardinality(OrItemsOf(files[i])) = 1
        /\ SimpleItemsOf(files[i]) # {}
        /\ files[i].license_expr = Paren(T_OR) \o AND_SEP \o Upper(T_Bsd)

Count(rels, e) == Cardinality({k \in 1..Len(rels) : rels[k] = e})
OwnsFile(p, f) == f.package = p.id
OwnsSome(p) == \E j \in 1..Len(files) : OwnsFile(p, files[j])

\* The edges the deriver is to rebuild from the final identifiers.
RebuiltEdges ==
    {NewRelationship(DOCUMENT, DESCRIBES, packages[i].spdx_id) :
        i \in {n \in 1..Len(packages) : OwnsSome(packages[n])}}
    \cup
    {NewRelationship(packages[pf[1]].spdx_id, CONTAINS, files[pf[2]].spdx_id) :
        pf \in {x \in (1..Len(packages)) \X (1..Len(files)) :
                    OwnsFile(packages[x[1]], files[x[2]])}}

\* C2 as stated: one DESCRIBES edge for each package with a file and none
\* for the others, one CONTAINS edge for each (package, file) pair, and no
\* DESCRIBES or CONTAINS edge besides these.
C2_NoDescribesCarriedOver ==
    Done =>
        /\ \A i \in 1..Len(packages) :
              Cardinality({k \in 1..Len(relationships) :
                              /\ relationships[k].relationship_type = DESCRIBES
                              /\ relationships[k].related_spdx_id = packages[i].spdx_id})
                 = IF OwnsSome(packages[i]) THEN 1 ELSE 0
        /\ \A i \in 1..Len(packages) : \A j \in 1..Len(files) :
              Count(relationships,
                    NewRelationship(packages[i].spdx_id, CONTAINS, files[j].spdx_id))
                 = IF OwnsFile(packages[i], files[j]) THEN 1 ELSE 0
        /\ \A k \in 1..Len(relationships) :
              relationships[k].relationship_type \in {DESCRIBES, CONTAINS}
                 => relationships[k] \in RebuiltEdges

\* C2 amended: one DESCRIBES edge from SPDXRef-DOCUMENT for each package
\* with a file and none for the others, one CONTAINS edge for each
\* (package, file) pair, and no CONTAINS edge and no DESCRIBES edge from
\* SPDXRef-DOCUMENT besides these.
C2_DocumentDescribesRebuilt ==
    Done =>
        /\ \A i \in 1..Len(packages) :
              Count(relationships,
                    NewRelationship(DOCUMENT, DESCRIBES, packages[i].spdx_id))
                 = IF OwnsSome(packages[i]) THEN 1 ELSE 0
        /\ \A i \in 1..Len(packages) : \A j \in 1..Len(files) :
              Count(relationships,
                    NewRelationship(packages[i].spdx_id, CONTAINS, files[j].spdx_id))
                 = IF OwnsFile(packages[i], files[j]) THEN 1 ELSE 0
        /\ \A k \in 1..Len(relationships) :
              (\/ relationships[k].relationship_type = CONTAINS
               \/ /\ relationships[k].relationship_type = DESCRIBES
                  /\ relationships[k].spdx_id = DOCUMENT)
                 => relationships[k] \in RebuiltEdges

\* One package owns two files, the other none, and the input had a
\* DESCRIBES edge from the document and a CONTAINS edge.
C2_Witness ==
    /\ Done
    /\ run = 1
    /\ Len(files) = 2
    /\ Len(packages) = 2
    /\ files[1].package = files[2].package
    /\ PkgIndex(packages, files[1].package) # 0
    /\ \E k \in 1..Len(input.relationships) :
          input.relationships[k].relationship_type = CONTAINS
    /\ \E k \in 1..Len(input.relationships) :
          /\ input.relationships[k].relationship_type = DESCRIBES
          /\ input.relationships[k].spdx_id = DOCUMENT

\* C3: the packages are numbered SPDXRef-Package-1 .. N without repeats in
\* ascending order of their ids, the files SPDXRef-File-1 .. M without
\* repeats in the order of data.files, whose paths do not decrease.
C3_SequentialIds ==
    Done =>
        /\ {packages[i].spdx_id : i \in 1..Len(packages)}
              = {PKG_PREFIX \o Decimal(n) : n \in 1..Len(packages)}
        /\ \A i, j \in 1..Len(packages) :
              i # j => packages[i].spdx_id # packages[j].spdx_id
        /\ \A i \in 1..Len(packages) :
              packages[i].spdx_id = PKG_PREFIX \o
                 Decimal(1 + Cardinality({j \in 1..Len(packages) :
                                             StrLess(packages[j].id, packages[i].id)}))
        /\ \A i \in 1..Len(files) : files[i].spdx_id = FILE_PREFIX \o Decimal(i)
        /\ \A i, j \in 1..Len(files) : i # j => files[i].spdx_id # files[j].spdx_id
        /\ \A i, j \in 1..Len(files) :
              i < j => ~StrLess(files[j].file_path, files[i].file_path)

\* Several packages, inserted out of order, and files that the sort moved.
C3_Witness ==
    /\ Done
    /\ run = 1
    /\ Len(packages) >= 3
    /\ Len(files) >= 2
    /\ StrLess(packages[2].id, packages[1].id)
    /\ input.files[1].file_path # files[1].file_path

\* The packages of the input that have a url, and for each the name it has
\* before collisions are resolved and that name with its version appended.
UrlPackages == {i \in 1..Len(input.packages) : input.packages[i].url # None}
InputVersion(i) ==
    IF input.packages[i].version = None THEN NONE_VERSION ELSE input.packages[i].version
BaseName(i) == DerivedName(input.packages[i])
BaseSuffixed(i) == BaseName(i) \o DASH \o InputVersion(i)

\* C4 as stated: after pre_process no two distinct packages have the same
\* name, whatever the input names, versions and urls.
C4_NamesAlwaysUnique ==
    Done => \A i, j \in 1..Len(packages) : i # j => packages[i].name # packages[j].name

\* No two packages with a url have the same version-suffixed name, and the
\* base name of none is the version-suffixed name of another.
SuffixesSeparate ==
    \A i, j \in UrlPackages :
        i # j => /\ BaseSuffixed(i) # BaseSuffixed(j)
                 /\ BaseName(i) # BaseSuffixed(j)

\* C4 amended: when the version-suffixed names of the packages with a url
\* are pairwise different and differ from the other packages' base names,
\* no two distinct packages with a url have the same name after pre_process.
C4_NamesUniqueWhenSuffixesSeparate ==
    (Done /\ SuffixesSeparate) =>
        \A i, j \in UrlPackages : i # j => packages[i].name # packages[j].name

\* Three packages with a url and one base name: a collision was resolved.
C4_Witness ==
    /\ Done
    /\ run = 1
    /\ SuffixesSeparate
    /\ Cardinality(UrlPackages) >= 3
    /\ \A i, j \in UrlPackages : BaseName(i) = BaseName(j)
    /\ \E i \in UrlPackages : packages[i].name = BaseSuffixed(i)

\* What C5 compares of two data sets, but for the package names.
ComparedButNames(d) ==
    [files |-> [i \in 1..Len(d.files) |->
                   <<d.files[i].file_path, d.files[i].license_expr, d.files[i].spdx_id>>],
     packages |-> [i \in 1..Len(d.packages) |->
                   <<d.packages[i].id, d.packages[i].spdx_id, d.packages[i].version,
                     d.packages[i].browser_url>>],
     keys |-> DOMAIN d.licenses,
     licenses_sorted |-> d.licenses_sorted,
     detectors |-> d.detectors,
     relationships |-> d.relationships]
NamesOf(d) == [i \in 1..Len(d.packages) |-> d.packages[i].name]

Dangling == {j \in 1..Len(files) : PkgIndex(packages, files[j].package) = 0}

\* C6 as stated: with a file whose package is no key of data.packages the
\* relationship derivation does not end normally.
C6_DanglingOwnerFails ==
    Dangling # {} => ~Done

\* C6 amended: the derivation ends normally also with such a file; the
\* file gets no CONTAINS edge and its package id no DESCRIBES edge, and the
\* edges of the other files are all there.
C6_DanglingOwnerSkipped ==
    /\ pc # "error"
    /\ Done =>
          /\ \A j \in Dangling : \A k \in 1..Len(relationships) :
                ~(/\ relationships[k].relationship_type = CONTAINS
                  /\ relationships[k].related_spdx_id = files[j].spdx_id)
          /\ Cardinality({k \in 1..Len(relationships) :
                            /\ relationships[k].relationship_type = DESCRIBES
                            /\ relationships[k].spdx_id = DOCUMENT})
                = Cardinality({i \in 1..Len(packages) : OwnsSome(packages[i])})
          /\ Cardinality({k \in 1..Len(relationships) :
                            relationships[k].relationship_type = CONTAINS})
                = Len(files) - Cardinality(Dangling)

\* The derivation ended with one file of no package and one file of a package.
C6_Witness ==
    /\ Done
    /\ Dangling # {}
    /\ \E j \in 1..Len(files) : j \notin Dangling
    /\ \E k \in 1..Len(relationships) : relationships[k].relationship_type = CONTAINS

\* Neither a DESCRIBES edge from SPDXRef-DOCUMENT nor a CONTAINS edge.
PassesThrough(rel) ==
    /\ ~(rel.relationship_type = DESCRIBES /\ rel.spdx_id = DOCUMENT)
    /\ rel.relationship_type # CONTAINS
InputRelationships == IF input.has_relationships THEN input.relationships ELSE <<>>

\* C8: the input relationships that pass through open data.relationships,
\* unchanged, as often and in the order they came, and every edge behind
\* them is a rebuilt DESCRIBES or CONTAINS edge; without a relationships
\* attribute there are the rebuilt edges only.
C8_OthersPassThrough ==
    Done =>
        LET kept == SelectSeq(InputRelationships, PassesThrough)
        IN  /\ Len(relationships) >= Len(kept)
            /\ SubSeq(relationships, 1, Len(kept)) = kept
            /\ \A k \in (Len(kept) + 1)..Len(relationships) :
                  /\ ~PassesThrough(relationships[k])
                  /\ relationships[k] \in RebuiltEdges
            /\ ~input.has_relationships =>
                  \A k \in 1..Len(relationships) : relationships[k] \in RebuiltEdges

\* The input had an edge that passes through and one that does not, and
\* edges were rebuilt behind the kept ones.
C8_Witness ==
    /\ Done
    /\ run = 1
    /\ \E k \in 1..Len(InputRelationships) : PassesThrough(InputRelationships[k])
    /\ \E k \in 1..Len(InputRelationships) : ~PassesThrough(InputRelationships[k])
    /\ Len(relationships) > Len(SelectSeq(InputRelationships, PassesThrough))
=============================================================================
